---- MODULE Spec2Model ----
(***************************************************************************)
(* ChoreBoard Home Assistant integration.                                  *)
(*                                                                         *)
(* Part I   the API client: HMAC token cache and the request boundary      *)
(*          (custom_components/choreboard/api_client.py).                  *)
(* Part II  the due-date filter and the datetime normalisation             *)
(*          (custom_components/choreboard/coordinator.py, lines 78-178).   *)
(* Part III one reconciliation tick of the coordinator                     *)
(*          (custom_components/choreboard/coordinator.py, lines 180-369).  *)
(* Part IV  the service handlers (custom_components/choreboard/__init__.py)*)
(* Part V   the sensors (custom_components/choreboard/sensor.py).          *)
(* Part VI  the tasks that share the one API client.                       *)
(* Part VII the credential steps of the config flow and the options flow   *)
(*          (custom_components/choreboard/config_flow.py).                 *)
(***************************************************************************)
EXTENDS Integers, Sequences, FiniteSets, TLC

VARIABLES
    \* ---- Part I: ChoreboardAPIClient ----
    username,         \* self.username
    secret_key,       \* self.secret_key
    cached_token,     \* self._cached_token (None or a token)
    token_timestamp,  \* self._token_timestamp (NoTimestamp or a clock reading)
    clock,            \* time.time(), in ticks of 1/TicksPerSec second
    ret,              \* what the call made by the last step did (NoCall otherwise)
    \* ---- Part II: the due-date filter ----
    now,              \* dt_util.now(): the local wall-clock reading, an aware datetime
    f_chores,         \* the list object handed to _filter_chores_by_due_date
    f_result,         \* what the last call on f_chores returned (NotCalled before)
    f_calls,          \* how many times f_chores went through the filter
    f_input,          \* the list as it was before any call
    due_out,          \* the last _is_due_today call: its argument and its answer
    \* ---- Part III: ChoreboardCoordinator ----
    monitored_users,  \* self.monitored_users
    backend,          \* what the backend holds: the JSON each endpoint answers with
    pc,               \* where _async_update_data stands
    tick,             \* the local variables of the running _async_update_data
    data,             \* coordinator.data: the snapshot the sensors read
    last_update_success, \* coordinator.last_update_success
    \* ---- Part IV: the service handlers of async_setup_entry ----
    svc,              \* the running service call and what the handlers have done
    \* ---- Part V: the sensors ----
    sensed,           \* the last read of a sensor: its state and its attributes
    \* ---- Part VI: the tasks that call the client ----
    inflight,         \* per task, the request of _request that awaits its response
    \* ---- Part VII: the credential steps of the flows ----
    flow              \* the step that runs, what was submitted, the errors shown

authVars == <<username, secret_key, cached_token, token_timestamp, clock, ret>>

dueVars == <<now, f_chores, f_result, f_calls, f_input, due_out>>

tickVars == <<monitored_users, backend, pc, tick, data, last_update_success>>

svcVars == <<svc>>

sensorVars == <<sensed>>

taskVars == <<inflight>>

flowVars == <<flow>>

vars == <<authVars, dueVars, tickVars, svcVars, sensorVars, taskVars, flowVars>>

otherThanAuth == <<dueVars, tickVars, svcVars, sensorVars, taskVars, flowVars>>

otherThanDue == <<authVars, tickVars, svcVars, sensorVars, taskVars, flowVars>>

otherThanTick ==
    <<authVars, f_chores, f_result, f_calls, f_input, due_out, svcVars, sensorVars, taskVars, flowVars>>

otherThanSvc == <<authVars, dueVars, tickVars, sensorVars, taskVars, flowVars>>

otherThanSensor == <<authVars, dueVars, tickVars, svcVars, taskVars, flowVars>>

otherThanClient == <<dueVars, tickVars, svcVars, sensorVars, flowVars>>

otherThanFlow == <<authVars, dueVars, tickVars, svcVars, sensorVars, taskVars>>

-----------------------------------------------------------------------------
(* Part I: the API client                                                  *)

\* Resolution of the float clock: ticks per second.
TicksPerSec == 2

\* The clock readings explored lie around 0, 1, .., MaxWindows freshness windows.
MaxWindows == 2

\* api_client.py:97  (23 * 3600) seconds
TOKEN_REFRESH_SECONDS == 82800

FreshTicks == TOKEN_REFRESH_SECONDS * TicksPerSec

None == <<>>

NoTimestamp == -1

Usernames == {"alice", "bob"}

Secrets == {"k1", "k2"}

ClockValues ==
    { t \in { k * FreshTicks + j : k \in 0..MaxWindows, j \in (0 - TicksPerSec)..TicksPerSec } :
        t >= 0 }

\* hmac.new(key, msg, sha256).hexdigest(): an ideal keyed digest, a value that
\* determines and is determined by (key, msg).
HmacSha256Hex(key, msg) == <<"hmac_sha256", key, msg>>

\* int(time.time())
IntSeconds(t) == t \div TicksPerSec

GenerateToken_signsFloat(user, key, t) ==
    LET timestamp == IntSeconds(t)
        message   == <<user, t>>
        signature == HmacSha256Hex(key, message)
    IN  <<user, timestamp, signature>>

\* _generate_token: f"{username}:{timestamp}:{signature}", with the time read at t.
GenerateToken(user, key, t) ==
    LET timestamp == IntSeconds(t)
        message   == <<user, timestamp>>
        signature == HmacSha256Hex(key, message)
    IN  <<user, timestamp, signature>>

TokenIsFresh_twoDays(cached, tstamp, current_time) ==
    /\ cached # None
    /\ tstamp # NoTimestamp
    /\ (current_time - tstamp) < 2 * FreshTicks

TokenIsFresh_le(cached, tstamp, current_time) ==
    /\ cached # None
    /\ tstamp # NoTimestamp
    /\ (current_time - tstamp) <= FreshTicks

TokenIsFresh_minutes(cached, tstamp, current_time) ==
    /\ cached # None
    /\ tstamp # NoTimestamp
    /\ (current_time - tstamp) < (23 * 60 * TicksPerSec)

\* The cache test of _get_token.
TokenIsFresh(cached, tstamp, current_time) ==
    /\ cached # None
    /\ tstamp # NoTimestamp
    /\ (current_time - tstamp) < FreshTicks

\* _get_token called when time.time() reads `current_time`; _generate_token reads the
\* clock again, at `gen_now`.
GetToken(cached, tstamp, current_time, gen_now) ==
    IF TokenIsFresh(cached, tstamp, current_time)
    THEN [token |-> cached, cached |-> cached, tstamp |-> tstamp, generated |-> FALSE]
    ELSE LET t == GenerateToken(username, secret_key, gen_now)
         IN  [token |-> t, cached |-> t, tstamp |-> current_time, generated |-> TRUE]

\* What the transport gives back for one HTTP request.
Statuses == {200, 302, 400, 401, 404, 500, 503}

Bodies == {"json_object", "json_array", "invalid_json", "not_json_content"}

\* A response has a status and a body; the body of a response with a status of
\* 400 or more is never read, so one kind of body stands for all.  Other than
\* a response the transport gives a connection failure, another client error,
\* or a timeout.
Responses ==
    [kind : {"http"}, status : { c \in Statuses : c < 400 }, body : Bodies]
        \cup [kind : {"http"}, status : { c \in Statuses : c >= 400 }, body : {"json_object"}]
        \cup [kind : {"connection_error", "client_error", "timeout"}, status : {0},
              body : {"none"}]

\* The text of an exception, with the path or the status code it carries.
NoMessage == [text |-> "", path |-> "", code |-> 0]

HandleResponse_retry(endpoint, resp) ==
    CASE resp.kind = "connection_error" ->
            [raised |-> "ChoreboardConnectionError", invalidate |-> FALSE, body |-> "none",
             message |-> [text |-> "Connection failed: {err}", path |-> "", code |-> 0], sent |-> 1]
      [] resp.kind = "client_error" ->
            [raised |-> "ChoreboardAPIError", invalidate |-> FALSE, body |-> "none",
             message |-> [text |-> "Request failed: {err}", path |-> "", code |-> 0], sent |-> 1]
      [] resp.kind = "timeout" ->
            [raised |-> "TimeoutError", invalidate |-> FALSE, body |-> "none",
             message |-> NoMessage, sent |-> 1]
      [] resp.status = 401 ->
            [raised |-> "none", invalidate |-> FALSE, body |-> "json_object",
             message |-> NoMessage, sent |-> 2]
      [] resp.status = 404 ->
            [raised |-> "ChoreboardAPIError", invalidate |-> FALSE, body |-> "none",
             message |-> [text |-> "Endpoint not found: {endpoint}",
                         path |-> endpoint, code |-> 0], sent |-> 1]
      [] resp.status >= 500 ->
            [raised |-> "ChoreboardAPIError", invalidate |-> FALSE, body |-> "none",
             message |-> [text |-> "Server error: {status}",
                         path |-> "", code |-> resp.status], sent |-> 1]
      [] resp.status >= 400 ->
            [raised |-> "ChoreboardAPIError", invalidate |-> FALSE, body |-> "none",
             message |-> [text |-> "Request failed: {err}", path |-> "", code |-> 0], sent |-> 1]
      [] resp.body = "not_json_content" ->
            [raised |-> "ChoreboardAPIError", invalidate |-> FALSE, body |-> "none",
             message |-> [text |-> "Request failed: {err}", path |-> "", code |-> 0], sent |-> 1]
      [] resp.body = "invalid_json" ->
            [raised |-> "JSONDecodeError", invalidate |-> FALSE, body |-> "none",
             message |-> [text |-> "Expecting value", path |-> "", code |-> 0], sent |-> 1]
      [] OTHER ->
            [raised |-> "none", invalidate |-> FALSE, body |-> resp.body,
             message |-> NoMessage, sent |-> 1]

HandleResponse_connAsApi(endpoint, resp) ==
    CASE resp.kind = "connection_error" ->
            [raised |-> "ChoreboardAPIError", invalidate |-> FALSE, body |-> "none",
             message |-> [text |-> "Request failed: {err}", path |-> "", code |-> 0], sent |-> 1]
      [] resp.kind = "client_error" ->
            [raised |-> "ChoreboardAPIError", invalidate |-> FALSE, body |-> "none",
             message |-> [text |-> "Request failed: {err}", path |-> "", code |-> 0], sent |-> 1]
      [] resp.kind = "timeout" ->
            [raised |-> "TimeoutError", invalidate |-> FALSE, body |-> "none",
             message |-> NoMessage, sent |-> 1]
      [] resp.status = 401 ->
            [raised |-> "ChoreboardAuthError", invalidate |-> TRUE, body |-> "none",
             message |-> [text |-> "Authentication failed", path |-> "", code |-> 0], sent |-> 1]
      [] resp.status = 404 ->
            [raised |-> "ChoreboardAPIError", invalidate |-> FALSE, body |-> "none",
             message |-> [text |-> "Endpoint not found: {endpoint}",
                         path |-> endpoint, code |-> 0], sent |-> 1]
      [] resp.status >= 500 ->
            [raised |-> "ChoreboardAPIError", invalidate |-> FALSE, body |-> "none",
             message |-> [text |-> "Server error: {status}",
                         path |-> "", code |-> resp.status], sent |-> 1]
      [] resp.status >= 400 ->
            [raised |-> "ChoreboardAPIError", invalidate |-> FALSE, body |-> "none",
             message |-> [text |-> "Request failed: {err}", path |-> "", code |-> 0], sent |-> 1]
      [] resp.body = "not_json_content" ->
            [raised |-> "ChoreboardAPIError", invalidate |-> FALSE, body |-> "none",
             message |-> [text |-> "Request failed: {err}", path |-> "", code |-> 0], sent |-> 1]
      [] resp.body = "invalid_json" ->
            [raised |-> "JSONDecodeError", invalidate |-> FALSE, body |-> "none",
             message |-> [text |-> "Expecting value", path |-> "", code |-> 0], sent |-> 1]
      [] OTHER ->
            [raised |-> "none", invalidate |-> FALSE, body |-> resp.body,
             message |-> NoMessage, sent |-> 1]

\* The body of _request after the request to `endpoint` was sent: the status
\* checks in their order, raise_for_status(), response.json(), and the two
\* except clauses.
HandleResponse(endpoint, resp) ==
    CASE resp.kind = "connection_error" ->
            [raised |-> "ChoreboardConnectionError", invalidate |-> FALSE, body |-> "none",
             message |-> [text |-> "Connection failed: {err}", path |-> "", code |-> 0], sent |-> 1]
      [] resp.kind = "client_error" ->
            [raised |-> "ChoreboardAPIError", invalidate |-> FALSE, body |-> "none",
             message |-> [text |-> "Request failed: {err}", path |-> "", code |-> 0], sent |-> 1]
      [] resp.kind = "timeout" ->
            \* asyncio.TimeoutError of the session timeout: no aiohttp.ClientError
            [raised |-> "TimeoutError", invalidate |-> FALSE, body |-> "none",
             message |-> NoMessage, sent |-> 1]
      [] resp.status = 401 ->
            [raised |-> "ChoreboardAuthError", invalidate |-> TRUE, body |-> "none",
             message |-> [text |-> "Authentication failed", path |-> "", code |-> 0], sent |-> 1]
      [] resp.status = 404 ->
            [raised |-> "ChoreboardAPIError", invalidate |-> FALSE, body |-> "none",
             message |-> [text |-> "Endpoint not found: {endpoint}",
                         path |-> endpoint, code |-> 0], sent |-> 1]
      [] resp.status >= 500 ->
            [raised |-> "ChoreboardAPIError", invalidate |-> FALSE, body |-> "none",
             message |-> [text |-> "Server error: {status}",
                         path |-> "", code |-> resp.status], sent |-> 1]
      [] resp.status >= 400 ->
            \* raise_for_status(): ClientResponseError, an aiohttp.ClientError
            [raised |-> "ChoreboardAPIError", invalidate |-> FALSE, body |-> "none",
             message |-> [text |-> "Request failed: {err}", path |-> "", code |-> 0], sent |-> 1]
      [] resp.body = "not_json_content" ->
            \* response.json(): ContentTypeError, an aiohttp.ClientError
            [raised |-> "ChoreboardAPIError", invalidate |-> FALSE, body |-> "none",
             message |-> [text |-> "Request failed: {err}", path |-> "", code |-> 0], sent |-> 1]
      [] resp.body = "invalid_json" ->
            \* response.json(): json.JSONDecodeError, caught by neither except clause
            [raised |-> "JSONDecodeError", invalidate |-> FALSE, body |-> "none",
             message |-> [text |-> "Expecting value", path |-> "", code |-> 0], sent |-> 1]
      [] OTHER ->
            [raised |-> "none", invalidate |-> FALSE, body |-> resp.body,
             message |-> NoMessage, sent |-> 1]

\* the paths _request is called with
Endpoints == {"/api/outstanding/", "/api/users/"}

NoCall ==
    [op |-> "none", token |-> None, generated |-> FALSE, endpoint |-> "", kind |-> "none",
     status |-> 0, sent_body |-> "none", raised |-> "none", body |-> "none",
     message |-> NoMessage, sent |-> 0]

\* time passes (time.time() is the wall clock: it may also be set back)
AdvanceClock ==
    /\ \E t \in ClockValues \ {clock} : clock' = t
    /\ ret' = NoCall
    /\ UNCHANGED <<username, secret_key, cached_token, token_timestamp>>
    /\ UNCHANGED otherThanAuth

\* a direct call of _get_token()
CallGetToken ==
    \E d \in {0, 1} :
        LET g == GetToken(cached_token, token_timestamp, clock, clock + d) IN
        /\ d = 1 => (g.generated /\ clock + 1 \in ClockValues)
        /\ cached_token' = g.cached
        /\ token_timestamp' = g.tstamp
        /\ clock' = clock + d
        /\ ret' = [NoCall EXCEPT !.op = "get_token", !.token = g.token,
                                 !.generated = g.generated]
        /\ UNCHANGED <<username, secret_key>>
        /\ UNCHANGED otherThanAuth

\* one call of _request(): the token is taken, the request sent with it, the
\* response handled
CallRequest ==
    \E d \in {0, 1}, endpoint \in Endpoints, resp \in Responses :
        LET g == GetToken(cached_token, token_timestamp, clock, clock + d)
            h == HandleResponse(endpoint, resp)
        IN
        /\ d = 1 => (g.generated /\ clock + 1 \in ClockValues)
        /\ cached_token' = IF h.invalidate THEN None ELSE g.cached
        /\ token_timestamp' = IF h.invalidate THEN NoTimestamp ELSE g.tstamp
        /\ clock' = clock + d
        /\ ret' = [op |-> "request", token |-> g.token, generated |-> g.generated,
                   endpoint |-> endpoint, kind |-> resp.kind, status |-> resp.status,
                   sent_body |-> resp.body, raised |-> h.raised, body |-> h.body,
                   message |-> h.message, sent |-> h.sent]
        /\ UNCHANGED <<username, secret_key>>
        /\ UNCHANGED otherThanAuth

AuthNext == AdvanceClock \/ CallGetToken \/ CallRequest

-----------------------------------------------------------------------------
(* Part II: datetimes, _is_due_today, _normalize_datetime and the filter    *)

\* Scaled calendar: a day has MinutesPerDay minutes, a minute SubMinute
\* instants (the seconds and microseconds strftime("%H:%M") drops).
MinutesPerDay == 2

SubMinute == 2

DayTicks == MinutesPerDay * SubMinute

\* coordinator.py:107  due_date.year == 9999
SENTINEL_YEAR == 9999

Years == {2025, SENTINEL_YEAR}

\* yesterday, today, tomorrow
Days == {0 - 1, 0, 1}

\* UTC offsets, whole minutes, in instants
TzOffsets == {0 - SubMinute, 0, SubMinute}

\* A JSON value of a datetime field.  fmt: "missing" (no such key), "none"
\* (null), "empty" (""), "nomatch" (a string parse_datetime answers None for),
\* "invalid" (a string whose fields make datetime() raise ValueError), "iso"
\* (ISO-8601 with seconds, with or without a UTC offset) and "minute"
\* ('YYYY-MM-DD HH:MM', what strftime writes).
DtValue(f) == [fmt |-> f, year |-> 0, day |-> 0, tick |-> 0, aware |-> FALSE, off |-> 0]

DtMissing == DtValue("missing")

DtNone == DtValue("none")

IsoStrings ==
    [fmt : {"iso"}, year : Years, day : Days, tick : 0..(DayTicks - 1),
     aware : {TRUE}, off : TzOffsets]
        \cup [fmt : {"iso"}, year : Years, day : Days, tick : 0..(DayTicks - 1),
              aware : {FALSE}, off : {0}]

DueValues ==
    IsoStrings \cup {DtMissing, DtNone, DtValue("empty"), DtValue("nomatch"), DtValue("invalid")}

\* not dt_str
Falsy(s) == s.fmt \in {"missing", "none", "empty"}

\* dt_util.parse_datetime: a datetime, None ("nomatch"), or ValueError ("invalid")
ParseDatetime(s) ==
    CASE s.fmt \in {"iso", "minute"} ->
            [ok |-> "datetime", year |-> s.year, day |-> s.day, tick |-> s.tick,
             aware |-> s.aware, off |-> s.off]
      [] s.fmt = "invalid" ->
            [ok |-> "ValueError", year |-> 0, day |-> 0, tick |-> 0, aware |-> FALSE, off |-> 0]
      [] OTHER ->
            [ok |-> "None", year |-> 0, day |-> 0, tick |-> 0, aware |-> FALSE, off |-> 0]

\* the position of a wall-clock reading on the time line of its own zone
WallTicks(d) == ((d.year - 2025) * 366 + d.day) * DayTicks + d.tick

\* the absolute instant of an aware datetime
Instant(d) == WallTicks(d) - d.off

\* now.replace(hour=23, minute=59, second=59, microsecond=999999)
EndOfToday(n) == [n EXCEPT !.tick = DayTicks - 1]

IsDueToday_noSentinel(chore, n) ==
    LET due_at_str == chore.due_at
        due_date   == ParseDatetime(due_at_str)
    IN  CASE Falsy(due_at_str) -> FALSE
          [] due_date.ok # "datetime" -> FALSE
          [] ~due_date.aware -> FALSE
          [] OTHER -> Instant(due_date) <= Instant(EndOfToday(n))

IsDueToday_lt(chore, n) ==
    LET due_at_str == chore.due_at
        due_date   == ParseDatetime(due_at_str)
    IN  CASE Falsy(due_at_str) -> FALSE
          [] due_date.ok # "datetime" -> FALSE
          [] chore.schedule_type = "one_time" /\ due_date.year = SENTINEL_YEAR -> TRUE
          [] ~due_date.aware -> FALSE
          [] OTHER -> Instant(due_date) < Instant(EndOfToday(n))

\* _is_due_today(chore) when dt_util.now() reads n
IsDueToday(chore, n) ==
    LET due_at_str == chore.due_at
        due_date   == ParseDatetime(due_at_str)
    IN  CASE Falsy(due_at_str) -> FALSE
          \* parse_datetime answered None, or raised ValueError (caught)
          [] due_date.ok # "datetime" -> FALSE
          [] chore.schedule_type = "one_time" /\ due_date.year = SENTINEL_YEAR -> TRUE
          \* naive <= aware raises TypeError, caught by the except clause
          [] ~due_date.aware -> FALSE
          [] OTHER -> Instant(due_date) <= Instant(EndOfToday(n))

\* dt_util.as_local: a naive datetime is taken as local time, an aware one is
\* converted to the local zone
AsLocal(d, localOff) ==
    LET w == IF d.aware THEN WallTicks(d) - d.off + localOff ELSE WallTicks(d)
        y == (d.year - 2025) * 366 * DayTicks
    IN  [d EXCEPT !.day = (w - y) \div DayTicks, !.tick = (w - y) % DayTicks,
                  !.aware = TRUE, !.off = localOff]

\* strftime("%Y-%m-%d %H:%M")
StrfMinute(d) ==
    [fmt |-> "minute", year |-> d.year, day |-> d.day,
     tick |-> (d.tick \div SubMinute) * SubMinute, aware |-> FALSE, off |-> 0]

\* _normalize_datetime(dt_str) in the local zone of n
NormalizeDatetime(s, n) ==
    LET dt_obj == ParseDatetime(s)
    IN  CASE Falsy(s) -> DtNone
          [] dt_obj.ok = "ValueError" -> s
          [] dt_obj.ok = "None" -> DtNone
          [] OTHER -> StrfMinute(AsLocal(dt_obj, n.off))

\* the two assignments of _filter_chores_by_due_date to a surviving chore
NormalizeChore(chore, n) ==
    [chore EXCEPT
        !.due_at = IF @.fmt # "missing" THEN NormalizeDatetime(@, n) ELSE @,
        !.completed_at = IF @.fmt # "missing" THEN NormalizeDatetime(@, n) ELSE @]

RECURSIVE FilterFrom(_, _, _)
FilterFrom(chores, i, n) ==
    IF i > Len(chores) THEN [filtered |-> <<>>, raw |-> <<>>]
    ELSE LET rest == FilterFrom(chores, i + 1, n)
             c    == chores[i]
         IN  IF IsDueToday(c, n)
             THEN [filtered |-> <<NormalizeChore(c, n)>> \o rest.filtered,
                   raw      |-> <<NormalizeChore(c, n)>> \o rest.raw]
             ELSE [filtered |-> rest.filtered, raw |-> <<c>> \o rest.raw]

\* _filter_chores_by_due_date(chores): the returned list, and the list that was
\* passed in as the call leaves it (the dicts in it are rewritten in place)
FilterChoresByDueDate(chores, n) == FilterFrom(chores, 1, n)

\* A chore instance as the backend sends it.  assigned_to: kind "missing" (no
\* such key), "null", or "dict" with its username.
Unassigned == [kind |-> "null", username |-> ""]

AssignedTo(u) == [kind |-> "dict", username |-> u]

Chore(id, due_at, completed_at, schedule_type, status, assigned_to, is_pool) ==
    [id |-> id, due_at |-> due_at, completed_at |-> completed_at,
     schedule_type |-> schedule_type, status |-> status,
     assigned_to |-> assigned_to, is_pool |-> is_pool]

ScheduleTypes == {"one_time", "daily", "missing"}

\* the local zone of this installation
LocalOffsets == {0, SubMinute}

NowValues ==
    [year : {2025}, day : {0}, tick : 0..(DayTicks - 1), aware : {TRUE}, off : LocalOffsets]

CompletedValues ==
    {DtMissing, DtNone, DtValue("nomatch"), DtValue("invalid"),
     [fmt |-> "iso", year |-> 2025, day |-> 0 - 1, tick |-> DayTicks - 1,
      aware |-> TRUE, off |-> 0]}

\* every due_at, schedule kind and completed_at, on one chore
DueChores ==
    { Chore(1, d, c, st, "ASSIGNED", AssignedTo("alice"), FALSE) :
        d \in DueValues, c \in CompletedValues, st \in ScheduleTypes }

\* how often one list is put through the filter
MaxFilterCalls == 2

NotCalled == [called |-> FALSE, list |-> <<>>]

NoDueCall == [called |-> FALSE, chore |-> <<>>, value |-> FALSE]

\* _is_due_today on a chore of the list
CallIsDueToday ==
    /\ \E i \in 1..Len(f_chores) :
          due_out' = [called |-> TRUE, chore |-> f_chores[i],
                      value |-> IsDueToday(f_chores[i], now)]
    /\ UNCHANGED <<now, f_chores, f_result, f_calls, f_input>>
    /\ UNCHANGED otherThanDue

\* _filter_chores_by_due_date on the list
CallFilter ==
    /\ f_calls < MaxFilterCalls
    /\ LET r == FilterChoresByDueDate(f_chores, now)
       IN  /\ f_result' = [called |-> TRUE, list |-> r.filtered]
           /\ f_chores' = r.raw
    /\ f_calls' = f_calls + 1
    /\ UNCHANGED <<now, f_input, due_out>>
    /\ UNCHANGED otherThanDue

DueNext == CallIsDueToday \/ CallFilter

-----------------------------------------------------------------------------
(* Part III: one reconciliation tick, _async_update_data                    *)

\* the outstanding and the late list of the backend hold at most MaxChores
\* chores together
MaxChores == 2

\* str(chore.get("status")).upper()
StatusUpper(status) ==
    CASE status \in {"POOL", "pool", "Pool"} -> "POOL"
      [] status = "missing" -> "NONE"
      [] OTHER -> status

\* not chore.get("assigned_to")
NoAssignee(chore) == chore.assigned_to.kind \in {"missing", "null"}

IsPoolChore_caseSensitive(chore) ==
    \/ chore.status = "POOL"
    \/ (chore.is_pool /\ NoAssignee(chore))

\* the condition of the pool_chores comprehension
IsPoolChore(chore) ==
    \/ StatusUpper(chore.status) = "POOL"
    \/ (chore.is_pool /\ NoAssignee(chore))

\* assigned_username, as the two scans of the per-user loop compute it
AssignedUsername(chore) ==
    CASE chore.assigned_to.kind = "missing" -> ""
      [] chore.assigned_to.kind = "dict" -> chore.assigned_to.username
      [] OTHER -> "None"

\* the comprehension of lines 222-230
PoolChores(outstanding) == SelectSeq(outstanding, IsPoolChore)

RECURSIVE AppendLate_noDedup(_, _, _, _)
AppendLate_noDedup(user_chores, late, u, i) ==
    IF i > Len(late) THEN user_chores
    ELSE AppendLate_noDedup(
            IF AssignedUsername(late[i]) = u THEN Append(user_chores, late[i]) ELSE user_chores,
            late, u, i + 1)

\* the scan of late_chores: a chore of the user is appended unless a chore with
\* its id is already in user_chores
RECURSIVE AppendLate(_, _, _, _)
AppendLate(user_chores, late, u, i) ==
    IF i > Len(late) THEN user_chores
    ELSE AppendLate(
            IF /\ AssignedUsername(late[i]) = u
               /\ ~\E k \in 1..Len(user_chores) : user_chores[k].id = late[i].id
            THEN Append(user_chores, late[i])
            ELSE user_chores,
            late, u, i + 1)

\* the scan of outstanding_chores: every chore of the user is appended
RECURSIVE AppendOutstanding(_, _, _, _)
AppendOutstanding(user_chores, outstanding, u, i) ==
    IF i > Len(outstanding) THEN user_chores
    ELSE AppendOutstanding(
            IF AssignedUsername(outstanding[i]) = u
            THEN Append(user_chores, outstanding[i])
            ELSE user_chores,
            outstanding, u, i + 1)

UserChores(outstanding, late, u) ==
    AppendLate(AppendOutstanding(<<>>, outstanding, u, 1), late, u, 1)

Range(seq) == { seq[i] : i \in 1..Len(seq) }

\* my_chores_data: one list per monitored username
MyChoresData(outstanding, late, monitored) ==
    [u \in Range(monitored) |-> UserChores(outstanding, late, u)]

\* lines 217-266: both filters, the pool list and the per-user lists
Reconcile(raw_out, raw_late, monitored, n) ==
    LET fo == FilterChoresByDueDate(raw_out, n)
        fl == FilterChoresByDueDate(raw_late, n)
    IN  [outstanding_chores_raw |-> fo.raw,
         late_chores_raw        |-> fl.raw,
         outstanding_chores     |-> fo.filtered,
         late_chores            |-> fl.filtered,
         pool_chores            |-> PoolChores(fo.filtered),
         my_chores_data         |-> MyChoresData(fo.filtered, fl.filtered, monitored)]

\* a lookup that takes the last user of that name, not the first
FindUser_last(users, name) ==
    LET hits == { i \in 1..Len(users) : users[i].username = name }
    IN  IF hits = {} THEN [found |-> FALSE, id |-> 0]
        ELSE [found |-> TRUE,
              id |-> users[CHOOSE i \in hits : \A j \in hits : i >= j].id]

\* next((u for u in users if u.get("username") == name), None)
FindUser(users, name) ==
    LET hits == { i \in 1..Len(users) : users[i].username = name }
    IN  IF hits = {} THEN [found |-> FALSE, id |-> 0]
        ELSE [found |-> TRUE,
              id |-> users[CHOOSE i \in hits : \A j \in hits : i <= j].id]

\* the session record built from a live arcade status (lines 285-296)
LiveSession(status, user_id, name) ==
    [id |-> status.session_id, chore_id |-> status.instance_id,
     user_id |-> user_id, user_name |-> name,
     status |-> IF status.status = "missing" THEN "active" ELSE status.status]

\* a or b
Or(a, b) == IF a # 0 THEN a ELSE b

\* the session record built from a pending approval (lines 320-329)
PendingSession(pending, user_id) ==
    [id |-> Or(pending.session_id, pending.id),
     chore_id |-> Or(pending.instance_id, pending.chore_id),
     user_id |-> user_id, user_name |-> pending.user_name,
     status |-> IF pending.status = "missing" THEN "judging" ELSE pending.status]

\* d with d[k] = v
Put(d, k, v) == [x \in (DOMAIN d) \cup {k} |-> IF x = k THEN v ELSE d[x]]

RECURSIVE MergePending_overwrite(_, _, _, _, _)
MergePending_overwrite(sessions, pendings, users, monitored, i) ==
    IF i > Len(pendings) THEN sessions
    ELSE LET p == pendings[i]
             user == FindUser(users, p.user_name)
         IN  MergePending_overwrite(
                IF /\ p.user_name \in Range(monitored)
                   /\ user.found
                THEN Put(sessions, p.user_name, PendingSession(p, user.id))
                ELSE sessions,
                pendings, users, monitored, i + 1)

\* the for loop over pending_approvals (lines 310-329)
RECURSIVE MergePending(_, _, _, _, _)
MergePending(sessions, pendings, users, monitored, i) ==
    IF i > Len(pendings) THEN sessions
    ELSE LET p == pendings[i]
             user == FindUser(users, p.user_name)
         IN  MergePending(
                IF /\ p.user_name \in Range(monitored)
                   /\ p.user_name \notin DOMAIN sessions
                   /\ user.found
                THEN Put(sessions, p.user_name, PendingSession(p, user.id))
                ELSE sessions,
                pendings, users, monitored, i + 1)

\* What a fetch gives the tick: the endpoint's data, a ChoreboardAPIError (or one
\* of its subtypes), or an exception of another type that _request let through.
FetchOutcomes == {"ok", "ChoreboardAPIError", "OtherError"}

\* get_arcade_status and get_pending_arcade_approvals end as every fetch of the
\* client does
OptionalFetchOutcomes == FetchOutcomes

\* the eight fetches of lines 208-215, in their order
CoreFetches ==
    <<"outstanding", "late", "users", "settings", "recent_completions",
      "chore_leaderboards", "leaderboard_weekly", "leaderboard_alltime">>

NoData == [published |-> FALSE]

\* the locals of _async_update_data before its first line; `answered` keeps the
\* two chore lists as the backend answered them, `failed` the fetches that raised
NoTick ==
    [fetch_no |-> 0, user_no |-> 0, failed |-> {}, error |-> "none", raised |-> "none",
     answered |-> [outstanding |-> <<>>, late |-> <<>>],
     outstanding_chores_raw |-> <<>>, late_chores_raw |-> <<>>,
     outstanding_chores |-> <<>>, late_chores |-> <<>>, pool_chores |-> <<>>,
     my_chores_data |-> <<>>, arcade_sessions |-> <<>>]

BuildData_partial(t) ==
    [published |-> TRUE,
     outstanding_chores |-> t.outstanding_chores,
     late_chores |-> t.late_chores,
     pool_chores |-> t.pool_chores,
     users |-> backend.users,
     my_chores |-> t.my_chores_data]

\* the dict of lines 337-349
BuildData(t) ==
    [published |-> TRUE,
     outstanding_chores |-> t.outstanding_chores,
     late_chores |-> t.late_chores,
     pool_chores |-> t.pool_chores,
     users |-> backend.users,
     points_label |-> IF backend.points_label = "missing" THEN "points"
                      ELSE backend.points_label,
     recent_completions |-> backend.recent_completions,
     chore_leaderboards |-> backend.chore_leaderboards,
     leaderboard_weekly |-> backend.leaderboard_weekly,
     leaderboard_alltime |-> backend.leaderboard_alltime,
     my_chores |-> t.my_chores_data,
     arcade_sessions |-> t.arcade_sessions]

\* the host's timer, or a requested refresh, starts _async_update_data
StartTick ==
    /\ pc = "idle"
    /\ pc' = "core"
    /\ tick' = [NoTick EXCEPT !.fetch_no = 1]
    /\ UNCHANGED <<monitored_users, backend, data, last_update_success, now>>
    /\ UNCHANGED otherThanTick

\* what becomes of the tick when a core fetch returns: the answer is bound to
\* its local, and after the last fetch lines 217-266 run
CoreSuccess(t) ==
    LET name == CoreFetches[t.fetch_no]
        got  == CASE name = "outstanding" ->
                        [t EXCEPT !.outstanding_chores_raw = backend.outstanding,
                                  !.answered.outstanding = backend.outstanding]
                  [] name = "late" ->
                        [t EXCEPT !.late_chores_raw = backend.late,
                                  !.answered.late = backend.late]
                  [] OTHER -> t
        r    == Reconcile(got.outstanding_chores_raw, got.late_chores_raw,
                          monitored_users, now)
    IN  IF t.fetch_no < Len(CoreFetches)
        THEN [pc |-> "core", tick |-> [got EXCEPT !.fetch_no = @ + 1]]
        ELSE [pc |-> "arcade",
              tick |-> [got EXCEPT !.fetch_no = @ + 1, !.user_no = 1,
                                   !.outstanding_chores_raw = r.outstanding_chores_raw,
                                   !.late_chores_raw = r.late_chores_raw,
                                   !.outstanding_chores = r.outstanding_chores,
                                   !.late_chores = r.late_chores,
                                   !.pool_chores = r.pool_chores,
                                   !.my_chores_data = r.my_chores_data]]

\* what becomes of the tick when a core fetch raises
CoreFailure_swallow(t, outcome) ==
    [pc |-> IF t.fetch_no = Len(CoreFetches) THEN "arcade" ELSE "core",
     tick |-> [t EXCEPT !.fetch_no = @ + 1, !.user_no = 1, !.error = outcome,
                        !.failed = @ \cup {<<"core", CoreFetches[t.fetch_no]>>}]]

CoreFailure(t, outcome) ==
    [pc |-> "failed",
     tick |-> [t EXCEPT !.error = outcome, !.failed = @ \cup {<<"core", CoreFetches[t.fetch_no]>>}]]

\* one of the awaits of lines 208-215 returns or raises; after the last one the
\* code runs on through lines 217-266
CoreFetch ==
    /\ pc = "core"
    /\ \E outcome \in FetchOutcomes :
          IF outcome = "ok"
          THEN /\ tick' = CoreSuccess(tick).tick
               /\ pc' = CoreSuccess(tick).pc
          ELSE /\ tick' = CoreFailure(tick, outcome).tick
               /\ pc' = CoreFailure(tick, outcome).pc
    /\ UNCHANGED <<monitored_users, backend, data, last_update_success, now>>
    /\ UNCHANGED otherThanTick

\* one pass of the loop of lines 271-303 for the monitored user `name`, whose
\* get_arcade_status call ends with `outcome`
ArcadeResult(t, name, outcome) ==
    LET user == FindUser(backend.users, name)
        next == [t EXCEPT !.user_no = @ + 1]
    IN  CASE ~(user.found /\ user.id # 0) -> [pc |-> "arcade", tick |-> next]
          [] outcome = "ok" ->
                [pc |-> "arcade",
                 tick |-> IF backend.arcade[user.id].has_active_session
                          THEN [next EXCEPT !.arcade_sessions =
                                   Put(@, name, LiveSession(backend.arcade[user.id], user.id, name))]
                          ELSE next]
          [] outcome = "ChoreboardAPIError" ->
                [pc |-> "arcade",
                 tick |-> [next EXCEPT !.failed = @ \cup {<<"arcade", name>>}]]
          [] OTHER ->
                [pc |-> "failed",
                 tick |-> [t EXCEPT !.error = outcome, !.failed = @ \cup {<<"arcade", name>>}]]

ArcadeFetch ==
    /\ pc = "arcade"
    /\ tick.user_no <= Len(monitored_users)
    /\ \E outcome \in OptionalFetchOutcomes :
          LET name == monitored_users[tick.user_no]
              user == FindUser(backend.users, name)
              r == ArcadeResult(tick, name, outcome)
          IN  /\ ~(user.found /\ user.id # 0) => outcome = "ok"
              /\ tick' = r.tick
              /\ pc' = r.pc
    /\ UNCHANGED <<monitored_users, backend, data, last_update_success, now>>
    /\ UNCHANGED otherThanTick

\* lines 308-335 for a get_pending_arcade_approvals call that ends with `outcome`
PendingResult(t, outcome) ==
    CASE outcome = "ok" ->
            [pc |-> "assemble",
             tick |-> [t EXCEPT !.arcade_sessions =
                          MergePending(@, backend.pending, backend.users, monitored_users, 1)]]
      [] outcome = "ChoreboardAPIError" ->
            [pc |-> "assemble", tick |-> [t EXCEPT !.failed = @ \cup {<<"pending", "">>}]]
      [] OTHER ->
            [pc |-> "failed",
             tick |-> [t EXCEPT !.error = outcome, !.failed = @ \cup {<<"pending", "">>}]]

PendingFetch ==
    /\ pc = "arcade"
    /\ tick.user_no > Len(monitored_users)
    /\ \E outcome \in OptionalFetchOutcomes :
          /\ tick' = PendingResult(tick, outcome).tick
          /\ pc' = PendingResult(tick, outcome).pc
    /\ UNCHANGED <<monitored_users, backend, data, last_update_success, now>>
    /\ UNCHANGED otherThanTick

\* lines 337-362: the snapshot is built and returned, and the host stores it
\* in coordinator.data
Publish ==
    /\ pc = "assemble"
    /\ data' = BuildData(tick)
    /\ last_update_success' = TRUE
    /\ pc' = "published"
    /\ UNCHANGED <<monitored_users, backend, tick, now>>
    /\ UNCHANGED otherThanTick

Escapes_apiOnly(error) == IF error = "ChoreboardAPIError" THEN "UpdateFailed" ELSE error

\* the exception that leaves _async_update_data when `error` was raised inside
\* the try block: both except clauses of lines 364-369 raise UpdateFailed
Escapes(error) == "UpdateFailed"

\* lines 364-369: UpdateFailed is raised; the host keeps coordinator.data
RaiseUpdateFailed ==
    /\ pc = "failed"
    /\ last_update_success' = FALSE
    /\ pc' = "idle"
    /\ tick' = [NoTick EXCEPT !.error = tick.error, !.raised = Escapes(tick.error)]
    /\ UNCHANGED <<monitored_users, backend, data, now>>
    /\ UNCHANGED otherThanTick

\* the tick has returned; the coordinator waits for the next one
EndTick ==
    /\ pc = "published"
    /\ pc' = "idle"
    /\ tick' = NoTick
    /\ UNCHANGED <<monitored_users, backend, data, last_update_success, now>>
    /\ UNCHANGED otherThanTick

\* between two ticks the first outstanding chore is completed on the backend
\* and leaves the list
BackendCompletes ==
    /\ pc = "idle"
    /\ backend.outstanding # <<>>
    /\ backend' = [backend EXCEPT !.outstanding = Tail(@)]
    /\ UNCHANGED <<monitored_users, pc, tick, data, last_update_success, now>>
    /\ UNCHANGED otherThanTick

\* the phase of the tick lifecycle a position of the code lies in: the awaits
\* of lines 208-215, 280 and 309 are the fetching, the building of the snapshot
\* from line 337 on is the reconciling (lines 217-266 run, without an await,
\* within the step that ends the core fetches)
Phase(position) ==
    CASE position \in {"core", "arcade"} -> "fetching"
      [] position = "assemble" -> "reconciling"
      [] OTHER -> position

TickNext ==
    \/ BackendCompletes
    \/ StartTick
    \/ CoreFetch
    \/ ArcadeFetch
    \/ PendingFetch
    \/ Publish
    \/ RaiseUpdateFailed
    \/ EndTick

-----------------------------------------------------------------------------
(* Part IV: the service handlers registered by async_setup_entry            *)

\* how many service calls a behaviour makes
MaxServiceCalls == 2

\* the ten services, each with the write call of the client its handler makes
Services ==
    {"mark_complete", "claim_chore", "unclaim_chore", "undo_completion",
     "start_arcade", "stop_arcade", "approve_arcade", "deny_arcade",
     "continue_arcade", "cancel_arcade"}

\* how the write call of a handler ends: it returns, raises a ChoreboardAPIError
\* (or a subtype), or raises an exception _request has let through
WriteOutcomes == {"ok", "ChoreboardAPIError", "OtherError"}

NoService ==
    [pc |-> "idle", service |-> "none", outcome |-> "none", raised |-> "none",
     trace |-> <<>>, calls |-> 0, refreshes |-> 0]

AfterWrite_always(outcome) == "refresh"

\* where a handler goes on when its write call has ended: to the line after
\* it, or out of the try block
AfterWrite(outcome) == IF outcome = "ok" THEN "refresh" ELSE "except"

HandlerRaises_swallow(outcome) ==
    CASE outcome \in {"ok", "ChoreboardAPIError"} -> "none"
      [] OTHER -> outcome

\* what leaves the handler: 'except ChoreboardAPIError' raises
\* HomeAssistantError, an exception of another type passes through
HandlerRaises(outcome) ==
    CASE outcome = "ok" -> "none"
      [] outcome = "ChoreboardAPIError" -> "HomeAssistantError"
      [] OTHER -> outcome

\* the host calls the handler of a service
CallService ==
    /\ svc.pc = "idle"
    /\ svc.calls < MaxServiceCalls
    /\ \E name \in Services :
          svc' = [svc EXCEPT !.pc = "write", !.service = name, !.outcome = "none",
                             !.raised = "none", !.trace = <<"write called">>,
                             !.calls = @ + 1]
    /\ UNCHANGED otherThanSvc

\* the awaited write call of the client ends
WriteReturns ==
    /\ svc.pc = "write"
    /\ \E outcome \in WriteOutcomes :
          svc' = [svc EXCEPT !.pc = AfterWrite(outcome), !.outcome = outcome,
                             !.trace = Append(@, IF outcome = "ok" THEN "write returned"
                                                 ELSE "write raised")]
    /\ UNCHANGED otherThanSvc

\* await coordinator.async_refresh_immediately(): async_request_refresh()
RequestRefresh ==
    /\ svc.pc = "refresh"
    /\ svc' = [svc EXCEPT !.pc = IF svc.outcome = "ok" THEN "return" ELSE "except",
                          !.refreshes = @ + 1,
                          !.trace = Append(@, "refresh requested")]
    /\ UNCHANGED otherThanSvc

\* the exception of the write call is handled
HandlerExcept ==
    /\ svc.pc = "except"
    /\ svc' = [svc EXCEPT !.pc = "return", !.raised = HandlerRaises(svc.outcome)]
    /\ UNCHANGED otherThanSvc

\* the handler has returned or raised
HandlerEnds ==
    /\ svc.pc = "return"
    /\ svc' = [svc EXCEPT !.pc = "idle"]
    /\ UNCHANGED otherThanSvc

SvcNext ==
    \/ CallService
    \/ WriteReturns
    \/ RequestRefresh
    \/ HandlerExcept
    \/ HandlerEnds

\* no service was called
SvcIdle == svc = NoService

-----------------------------------------------------------------------------
(* Part V: the sensors of sensor.py, which read coordinator.data            *)

Sensor(kind, user, chore_id) == [kind |-> kind, user |-> user, chore_id |-> chore_id]

\* the nine sensors async_setup_entry always creates (lines 65-73)
FixedSensors ==
    {"outstanding", "late", "pool", "breakdown", "completion_history",
     "pending_arcade", "leaderboard_weekly", "leaderboard_alltime", "users"}

\* the four sensors of a monitored user (lines 86-94)
UserSensors == {"my_chores", "my_immediate_chores", "weekly_points", "alltime_points"}

\* every sensor async_setup_entry creates: the fixed ones, one per chore
\* leaderboard that has a chore_id and a chore_name, four per monitored user
Sensors(snapshot, monitored) ==
    { Sensor(k, "", 0) : k \in FixedSensors }
        \cup { Sensor("chore_leaderboard", "", lb.chore_id) :
                 lb \in { l \in Range(snapshot.chore_leaderboards) :
                            l.chore_id # 0 /\ l.chore_name # "" } }
        \cup { Sensor(k, u, 0) : k \in UserSensors, u \in Range(monitored) }

\* len(data.get(key, []))
LenOf(snapshot, key) == IF key \in DOMAIN snapshot THEN Len(snapshot[key]) ELSE 0

\* my_chores.get(username, [])
MyChoresOf(snapshot, user) ==
    IF user \in DOMAIN snapshot.my_chores THEN snapshot.my_chores[user] ELSE <<>>

\* native_value of a sensor
NativeValue(sensor, snapshot) ==
    CASE sensor.kind = "outstanding" -> LenOf(snapshot, "outstanding_chores")
      [] sensor.kind = "late" -> LenOf(snapshot, "late_chores")
      [] sensor.kind = "pool" -> LenOf(snapshot, "pool_chores")
      [] sensor.kind = "breakdown" ->
            Cardinality({ c.id : c \in Range(snapshot.outstanding_chores \o snapshot.late_chores) })
      [] sensor.kind = "completion_history" -> LenOf(snapshot, "recent_completions")
      [] sensor.kind = "pending_arcade" -> LenOf(snapshot, "pending_arcade_sessions")
      [] sensor.kind = "leaderboard_weekly" -> LenOf(snapshot, "leaderboard_weekly")
      [] sensor.kind = "leaderboard_alltime" -> LenOf(snapshot, "leaderboard_alltime")
      [] sensor.kind = "users" -> LenOf(snapshot, "users")
      [] sensor.kind = "chore_leaderboard" ->
            LET hits == { i \in 1..Len(snapshot.chore_leaderboards) :
                            snapshot.chore_leaderboards[i].chore_id = sensor.chore_id }
            IN  IF hits = {} THEN 0
                ELSE Len(snapshot.chore_leaderboards[
                            CHOOSE i \in hits : \A j \in hits : i <= j].high_scores)
      \* no chore of the model is marked complete_later
      [] sensor.kind \in {"my_chores", "my_immediate_chores"} ->
            Len(MyChoresOf(snapshot, sensor.user))
      \* float(user.get("weekly_points", 0)): the users of the model carry no points
      [] OTHER -> 0

\* the keys of extra_state_attributes of a sensor
AttributeKeys(sensor, snapshot) ==
    CASE sensor.kind \in {"outstanding", "late", "pool"} -> {"chores", "count", "points_label"}
      [] sensor.kind = "breakdown" ->
            {"total_chores", "pool_chores", "assigned_chores", "pool_percentage",
             "assigned_percentage", "status_breakdown", "outstanding_count", "late_count",
             "points_label"}
      [] sensor.kind = "completion_history" -> {"completions", "count", "points_label"}
      [] sensor.kind = "pending_arcade" -> {"sessions", "count", "points_label"}
      [] sensor.kind = "my_chores" ->
            {"username", "chores", "count", "points_label"}
                \cup (IF sensor.user \in DOMAIN snapshot.arcade_sessions
                      THEN {"arcade_session"} ELSE {})
      [] sensor.kind = "my_immediate_chores" ->
            {"username", "chores", "count", "total_chores", "complete_later_chores",
             "points_label"}
      [] sensor.kind \in {"leaderboard_weekly", "leaderboard_alltime"} ->
            {"type", "users", "count", "points_label"}
      [] sensor.kind = "chore_leaderboard" ->
            {"chore_id", "chore_name", "scores", "count", "points_label"}
      [] sensor.kind = "weekly_points" ->
            IF FindUser(snapshot.users, sensor.user).found
            THEN {"username", "display_name", "points", "claims_today", "points_label"}
            ELSE {"username", "points", "points_label"}
      [] sensor.kind = "alltime_points" ->
            IF FindUser(snapshot.users, sensor.user).found
            THEN {"username", "display_name", "points", "weekly_points", "points_label"}
            ELSE {"username", "points", "points_label"}
      \* the Users sensor
      [] OTHER -> {"users", "count", "points_label"}

NoRead == [read |-> FALSE, sensor |-> Sensor("none", "", 0), native_value |-> 0,
           attributes |-> {}]

\* the host reads the state and the attributes of a sensor, between two ticks
\* or when a tick has published; the sensors exist once the first refresh has
\* given a snapshot
ReadSensor ==
    /\ data.published
    /\ pc \in {"idle", "published"}
    /\ \E s \in Sensors(data, monitored_users) :
          sensed' = [read |-> TRUE, sensor |-> s, native_value |-> NativeValue(s, data),
                     attributes |-> AttributeKeys(s, data)]
    /\ UNCHANGED otherThanSensor

SensorNext ==
    \/ BackendCompletes
    \/ StartTick
    \/ CoreFetch
    \/ ArcadeFetch
    \/ PendingFetch
    \/ Publish
    \/ RaiseUpdateFailed
    \/ EndTick
    \/ ReadSensor

\* no sensor was read
SensorIdle == sensed = NoRead

-----------------------------------------------------------------------------
(* Part VI: _request as the tasks of the event loop run it.  The coordinator *)
(* awaits its fetches one after the other inside _async_update_data; a       *)
(* service handler is a coroutine of its own, which the host starts when the *)
(* service is called.  _request takes the token (line 132), awaits the       *)
(* response (line 137), and handles it (lines 145-165); while it awaits, the *)
(* event loop runs the other task.                                           *)

\* the task of the tick and the task of a service handler
Tasks == {"tick", "service"}

NoRequest == [busy |-> FALSE, token |-> None, endpoint |-> "", serial |-> 0, sent_at |-> 0]

\* how many requests a behaviour sends
MaxRequests == 3

\* what the tick fetches first, and what mark_complete posts to
TaskEndpoint(t) == IF t = "tick" THEN "/api/outstanding/" ELSE "/api/complete/"

\* the answers that differ in what they do to the cache and to the caller
TaskResponses ==
    { r \in Responses : \/ r.kind = "connection_error"
                        \/ (r.status \in {200, 401, 500} /\ r.body = "json_object") }

\* how many requests were sent so far: the serial number of the last one
LastSerial ==
    CHOOSE n \in 0..MaxRequests :
        /\ \E t \in Tasks : inflight[t].serial = n
        /\ \A t \in Tasks : inflight[t].serial <= n

\* lines 131-137: the task takes the token and sends the request with it
SendRequest ==
    \E t \in Tasks :
        LET g == GetToken(cached_token, token_timestamp, clock, clock)
            endpoint == TaskEndpoint(t)
        IN
        /\ ~inflight[t].busy
        /\ LastSerial < MaxRequests
        /\ cached_token' = g.cached
        /\ token_timestamp' = g.tstamp
        /\ inflight' = [inflight EXCEPT ![t] =
                           [busy |-> TRUE, token |-> g.token, endpoint |-> endpoint,
                            serial |-> LastSerial + 1, sent_at |-> clock]]
        /\ ret' = NoCall
        /\ UNCHANGED <<username, secret_key, clock>>
        /\ UNCHANGED otherThanClient

\* lines 145-172: the response of the task's request arrives and is handled
ReceiveResponse ==
    \E t \in Tasks, resp \in TaskResponses :
        LET h == HandleResponse(inflight[t].endpoint, resp) IN
        /\ inflight[t].busy
        /\ cached_token' = IF h.invalidate THEN None ELSE cached_token
        /\ token_timestamp' = IF h.invalidate THEN NoTimestamp ELSE token_timestamp
        /\ inflight' = [inflight EXCEPT ![t] = [NoRequest EXCEPT !.serial = inflight[t].serial]]
        /\ ret' = [NoCall EXCEPT !.op = "request", !.kind = resp.kind,
                                 !.status = resp.status, !.raised = h.raised]
        /\ UNCHANGED <<username, secret_key, clock>>
        /\ UNCHANGED otherThanClient

\* time passes while the tasks wait
TimePasses ==
    /\ \E t \in ClockValues : t > clock /\ clock' = t
    /\ ret' = NoCall
    /\ UNCHANGED <<username, secret_key, cached_token, token_timestamp, inflight>>
    /\ UNCHANGED otherThanClient

TaskNext == SendRequest \/ ReceiveResponse \/ TimePasses

\* no request was sent
TaskIdle == inflight = [t \in Tasks |-> NoRequest]

-----------------------------------------------------------------------------
(* Part VII: the credential steps of the config flow and the options flow   *)

\* async_step_user of the config flow, async_step_credentials of the options flow
FlowSteps == {"user", "credentials"}

NoResponse == [kind |-> "none", status |-> 0, body |-> "none"]

NoInput == [username |-> "", secret_key |-> ""]

NoFlow ==
    [step |-> "none", phase |-> "none", user_input |-> NoInput,
     response |-> NoResponse, errors |-> "none", available_users |-> "none"]

\* class ChoreboardAPIError and its two subclasses
ApiErrorTypes == {"ChoreboardAPIError", "ChoreboardAuthError", "ChoreboardConnectionError"}

\* test_connection(), given what _request did for get_outstanding_chores():
\* True, False for every ChoreboardAPIError, any other exception let through
TestConnection(h) ==
    CASE h.raised = "none" -> [value |-> TRUE, raised |-> "none"]
      [] h.raised \in ApiErrorTypes -> [value |-> FALSE, raised |-> "none"]
      [] OTHER -> [value |-> FALSE, raised |-> h.raised]

\* errors["base"] after the try statement around test_connection()
CredentialErrors(tc) ==
    CASE tc.raised = "ChoreboardAuthError" -> "invalid_auth"
      [] tc.raised = "ChoreboardConnectionError" -> "cannot_connect"
      [] tc.raised # "none" -> "unknown"
      [] ~tc.value -> "invalid_auth"
      [] OTHER -> "none"

\* where self._available_users came from: /api/users/, the fallback over the
\* leaderboard and the chores, or nowhere (every error of the discovery is caught)
DiscoveryOutcomes == {"users_endpoint", "fallback", "nothing"}

\* the step is called without user_input: the form, with no error
OpenForm ==
    /\ flow.phase = "none"
    /\ \E step \in FlowSteps : flow' = [NoFlow EXCEPT !.step = step, !.phase = "form"]
    /\ UNCHANGED otherThanFlow

\* the step is called with user_input: a client is built from it and
\* test_connection() awaits the backend
SubmitCredentials ==
    /\ flow.phase = "form"
    /\ \E u \in Usernames, k \in Secrets :
          flow' = [NoFlow EXCEPT !.step = flow.step, !.phase = "testing",
                                 !.user_input = [username |-> u, secret_key |-> k]]
    /\ UNCHANGED otherThanFlow

\* the backend answers; the step goes on, or shows the form again with an error
TestConnectionEnds ==
    /\ flow.phase = "testing"
    /\ \E resp \in Responses, found \in DiscoveryOutcomes :
          LET tc == TestConnection(HandleResponse("/api/outstanding/", resp))
              errors == CredentialErrors(tc)
          IN  flow' = [flow EXCEPT
                  !.response = resp,
                  !.errors = errors,
                  !.phase = CASE errors # "none" -> "form"
                              [] flow.step = "user" -> "select_users"
                              [] OTHER -> "create_entry",
                  !.available_users =
                      IF errors = "none" /\ flow.step = "user" THEN found ELSE "none"]
    /\ UNCHANGED otherThanFlow

\* the flow goes on to its next step, ends, or is given up
CloseFlow ==
    /\ flow.phase \in {"form", "select_users", "create_entry"}
    /\ flow' = NoFlow
    /\ UNCHANGED otherThanFlow

FlowNext == OpenForm \/ SubmitCredentials \/ TestConnectionEnds \/ CloseFlow

\* no flow is open
FlowIdle == flow = NoFlow

\* the chores of the backend: two ids; due today, tomorrow, yesterday without
\* a UTC offset, or never (the sentinel); assigned, in the pool, or neither
DueToday == [fmt |-> "iso", year |-> 2025, day |-> 0, tick |-> 1, aware |-> TRUE, off |-> 0]

DueTomorrow == [fmt |-> "iso", year |-> 2025, day |-> 1, tick |-> 1, aware |-> TRUE, off |-> 0]

DueYesterdayNaive ==
    [fmt |-> "iso", year |-> 2025, day |-> 0 - 1, tick |-> 1, aware |-> FALSE, off |-> 0]

DueSentinel ==
    [fmt |-> "iso", year |-> SENTINEL_YEAR, day |-> 0, tick |-> 0, aware |-> FALSE, off |-> 0]

ChoreIds == {1, 2}

\* the first instant of the day in one zone, the last in another
TickNows ==
    { n \in NowValues : \/ (n.tick = 0 /\ n.off = 0)
                        \/ (n.tick = DayTicks - 1 /\ n.off = SubMinute) }

TickChores ==
    { Chore(1, DueToday, DtNone, "daily", "ASSIGNED", AssignedTo("alice"), FALSE),
      Chore(1, DueYesterdayNaive, DtNone, "daily", "ASSIGNED", AssignedTo("alice"), FALSE),
      Chore(2, DueTomorrow, DtNone, "daily", "ASSIGNED", AssignedTo("alice"), FALSE),
      Chore(2, DueSentinel, DtNone, "one_time", "ASSIGNED", AssignedTo("alice"), FALSE),
      Chore(2, DueToday, DtNone, "daily", "ASSIGNED", AssignedTo("bob"), FALSE),
      Chore(1, DueToday, DtNone, "daily", "pool", Unassigned, FALSE),
      Chore(1, DueTomorrow, DtNone, "daily", "POOL", Unassigned, FALSE),
      Chore(2, DueToday, DtNone, "daily", "ASSIGNED", Unassigned, TRUE),
      Chore(2, DueToday, DtNone, "daily", "ASSIGNED", AssignedTo("alice"), TRUE) }

\* the lists of at most n chores
SeqsUpTo(S, n) == UNION { [1..k -> S] : k \in 0..n }

User(name, id) == [username |-> name, id |-> id]

ArcadeStatus(active, session_id, status) ==
    [has_active_session |-> active, session_id |-> session_id,
     instance_id |-> 10 + session_id, status |-> status]

Pending(name, session_id, id, status) ==
    [user_name |-> name, session_id |-> session_id, id |-> id,
     instance_id |-> 0, chore_id |-> 20 + id, status |-> status]

\* the users the backend may hold: both, one only, one whose id is 0, or one
\* username twice
UserLists ==
    { <<User("alice", 1), User("bob", 2)>>,
      <<User("alice", 1)>>,
      <<User("alice", 0), User("bob", 2)>>,
      <<User("alice", 1), User("alice", 3), User("bob", 2)>> }

\* get_arcade_status(user_id), for every id a user may have
ArcadeTables ==
    { [i \in 0..3 |-> ArcadeStatus(i \in on, i, IF i = 2 THEN "missing" ELSE "active")] :
        on \in SUBSET {1, 2} }

PendingLists ==
    { <<>>,
      <<Pending("alice", 7, 0, "stopped")>>,
      <<Pending("bob", 0, 8, "missing"), Pending("bob", 9, 0, "judging")>>,
      <<Pending("carol", 5, 0, "judging"), Pending("alice", 0, 6, "missing")>> }

MonitoredLists == { <<>>, <<"alice">>, <<"alice", "bob">> }

Backend(outstanding, late, users, arcade, pending) ==
    [outstanding |-> outstanding, late |-> late, users |-> users,
     points_label |-> "stars", recent_completions |-> <<"completion">>,
     chore_leaderboards |-> <<"chore board">>, leaderboard_weekly |-> <<"weekly">>,
     leaderboard_alltime |-> <<"alltime">>,
     arcade |-> arcade, pending |-> pending]

\* the coordinator as constructed and never refreshed
TickIdle ==
    /\ monitored_users = <<>>
    /\ backend = Backend(<<>>, <<>>, <<>>, <<>>, <<>>)
    /\ pc = "idle"
    /\ tick = NoTick
    /\ data = NoData
    /\ last_update_success = TRUE

\* the API client as constructed and never used
AuthIdle ==
    /\ username = "alice"
    /\ secret_key = "k1"
    /\ cached_token = None
    /\ token_timestamp = NoTimestamp
    /\ clock = 0
    /\ ret = NoCall

\* no list under the filter
DueIdle ==
    /\ now = [year |-> 2025, day |-> 0, tick |-> 0, aware |-> TRUE, off |-> 0]
    /\ f_chores = <<>>
    /\ f_input = <<>>
    /\ f_result = NotCalled
    /\ f_calls = 0
    /\ due_out = NoDueCall

\* ChoreboardAPIClient.__init__
AuthInit ==
    /\ username \in Usernames
    /\ secret_key \in Secrets
    /\ cached_token = None
    /\ token_timestamp = NoTimestamp
    /\ clock = 0
    /\ ret = NoCall
    /\ DueIdle
    /\ TickIdle
    /\ SvcIdle
    /\ SensorIdle
    /\ TaskIdle
    /\ FlowIdle

SpecAuth == AuthInit /\ [][AuthNext]_vars

\* one chore, any due_at, any schedule kind, at any time of the day
DueInit ==
    /\ now \in NowValues
    /\ \E c \in DueChores : f_chores = <<c>>
    /\ f_input = f_chores
    /\ f_result = NotCalled
    /\ f_calls = 0
    /\ due_out = NoDueCall
    /\ AuthIdle
    /\ TickIdle
    /\ SvcIdle
    /\ SensorIdle
    /\ TaskIdle
    /\ FlowIdle

SpecDue == DueInit /\ [][DueNext]_vars

\* ChoreboardCoordinator.__init__ over a backend: either any chores under a
\* fixed arcade state, or any arcade state under fixed chores
Init ==
    /\ pc = "idle"
    /\ tick = NoTick
    /\ data = NoData
    /\ last_update_success = TRUE
    /\ \/ /\ monitored_users = <<"alice">>
          /\ \E l \in SeqsUpTo(TickChores, MaxChores), k \in 0..MaxChores :
                /\ k <= Len(l)
                /\ backend = Backend(SubSeq(l, 1, k), SubSeq(l, k + 1, Len(l)),
                                     <<User("alice", 1), User("bob", 2)>>,
                                     [i \in 0..3 |-> ArcadeStatus(i = 1, i, "active")],
                                     <<>>)
       \/ /\ monitored_users \in MonitoredLists
          /\ \E u \in UserLists, a \in ArcadeTables, p \in PendingLists :
                backend = Backend(<<Chore(1, DueToday, DtNone, "daily", "ASSIGNED",
                                          AssignedTo("alice"), FALSE)>>,
                                  <<>>, u, a, p)
    /\ now \in TickNows
    /\ f_chores = <<>>
    /\ f_input = <<>>
    /\ f_result = NotCalled
    /\ f_calls = 0
    /\ due_out = NoDueCall
    /\ AuthIdle
    /\ SvcIdle
    /\ SensorIdle
    /\ TaskIdle
    /\ FlowIdle

Spec == Init /\ [][TickNext]_vars

\* the integration set up, its services registered
SvcInit ==
    /\ svc = NoService
    /\ AuthIdle
    /\ DueIdle
    /\ TickIdle
    /\ SensorIdle
    /\ TaskIdle
    /\ FlowIdle

SpecService == SvcInit /\ [][SvcNext]_vars

\* the chores a view is built from: one of alice, one whose assigned_to is
\* null, one without the key
ViewChores ==
    { Chore(1, DueToday, DtNone, "daily", "ASSIGNED", AssignedTo("alice"), FALSE),
      Chore(1, DueToday, DtNone, "daily", "ASSIGNED", Unassigned, FALSE),
      Chore(1, DueToday, DtNone, "daily", "ASSIGNED", [kind |-> "missing", username |-> ""],
            FALSE) }

\* monitored users as the options hold them: a user, a user whose name is
\* "None", and what "alice," gives when split at the commas
ViewMonitoredLists == { <<"alice">>, <<"None">>, <<"alice", "">> }

\* one chore leaderboard of the backend
ChoreLeaderboards == <<[chore_id |-> 5, chore_name |-> "dishes", high_scores |-> <<"score">>]>>

\* the integration set up over a backend with at most one chore, at most one
\* pending approval, and a live session of alice
SensorInit ==
    /\ pc = "idle"
    /\ tick = NoTick
    /\ data = NoData
    /\ last_update_success = TRUE
    /\ monitored_users \in ViewMonitoredLists
    /\ \E c \in ViewChores, k \in 0..1, p \in { l \in PendingLists : Len(l) <= 1 } :
          backend = [Backend(SubSeq(<<c>>, 1, k), <<>>,
                             <<User("alice", 1), User("bob", 2), User("None", 3)>>,
                             [i \in 0..3 |-> ArcadeStatus(i = 1, i, "active")], p)
                        EXCEPT !.chore_leaderboards = ChoreLeaderboards]
    /\ now = [year |-> 2025, day |-> 0, tick |-> 0, aware |-> TRUE, off |-> 0]
    /\ f_chores = <<>>
    /\ f_input = <<>>
    /\ f_result = NotCalled
    /\ f_calls = 0
    /\ due_out = NoDueCall
    /\ AuthIdle
    /\ SvcIdle
    /\ sensed = NoRead
    /\ TaskIdle
    /\ FlowIdle

SpecSensors == SensorInit /\ [][SensorNext]_vars

\* the client constructed, both tasks yet to send a request
TaskInit ==
    /\ inflight = [t \in Tasks |-> NoRequest]
    /\ AuthIdle
    /\ DueIdle
    /\ TickIdle
    /\ SvcIdle
    /\ SensorIdle
    /\ FlowIdle

SpecTasks == TaskInit /\ [][TaskNext]_vars

\* Home Assistant running, no flow open
FlowInit ==
    /\ flow = NoFlow
    /\ AuthIdle
    /\ DueIdle
    /\ TickIdle
    /\ SvcIdle
    /\ SensorIdle
    /\ TaskIdle

SpecFlow == FlowInit /\ [][FlowNext]_vars

-----------------------------------------------------------------------------
(* Claims about the API client, checked under SpecAuth                      *)

\* C1: once a token is cached, every _get_token call made less than 23 hours
\* after its generation time (no 401 having cleared it) returns that very
\* token, generates nothing, and leaves the cached token and its generation
\* time as they were.
C1_CacheHitReturnsSameToken ==
    [][ ( /\ ret'.op # "none"
          /\ cached_token # None
          /\ clock - token_timestamp < 23 * 3600 * TicksPerSec )
        => /\ ret'.token = cached_token
           /\ ~ret'.generated
           /\ ret'.raised # "ChoreboardAuthError"
                => (cached_token' = cached_token /\ token_timestamp' = token_timestamp)
      ]_vars

\* a cache hit at the last instant of the freshness window
C1_Witness ==
    /\ ret.op = "get_token"
    /\ ~ret.generated
    /\ ret.token = cached_token
    /\ clock - token_timestamp = 23 * 3600 * TicksPerSec - 1

\* C2: a _get_token call generates a token exactly when none is cached or the
\* cached one is 23 hours old or older; the generated token is the one returned,
\* it becomes the cached token, and the time read by the call becomes its
\* generation time.
C2_RegenerateExactlyWhenStale ==
    [][ ret'.op # "none"
        => /\ ret'.generated
                <=> (cached_token = None \/ clock - token_timestamp >= 23 * 3600 * TicksPerSec)
           /\ (ret'.generated /\ ret'.raised # "ChoreboardAuthError")
                => (cached_token' = ret'.token /\ token_timestamp' = clock)
           /\ ret'.generated
                => \E t \in {clock, clock'} :
                      ret'.token = <<username, t \div TicksPerSec,
                                     HmacSha256Hex(secret_key, <<username, t \div TicksPerSec>>)>>
      ]_vars

\* a regeneration at an age of exactly 23 hours
C2_Witness ==
    /\ ret.op = "get_token"
    /\ ret.generated
    /\ cached_token = ret.token
    /\ token_timestamp = 23 * 3600 * TicksPerSec
    /\ cached_token[2] >= 23 * 3600

-----------------------------------------------------------------------------
(* Claims about the due-date filter, checked under SpecDue                  *)

\* the inclusion policy as the specification states it: (a) a one-time chore
\* whose due date has the sentinel year, or (b) a due date that, read in local
\* time, is not after 23:59:59.999999 of the current local day
ShouldDisplay(chore, n) ==
    LET d == ParseDatetime(chore.due_at)
    IN  /\ ~Falsy(chore.due_at)
        /\ d.ok = "datetime"
        /\ \/ (chore.schedule_type = "one_time" /\ d.year = 9999)
           \/ WallTicks(AsLocal(d, n.off)) <= WallTicks(EndOfToday(n))

\* C4: _is_due_today answers true if and only if the chore is a one-time chore
\* with a year-9999 due date, or its due_at is not after the end of the current
\* local day; an absent due_at is excluded.
C4_IsDueTodayIffPolicy ==
    due_out.called => (due_out.value <=> ShouldDisplay(due_out.chore, now))

\* what the code does decide: as C4, for a due_at that carries a UTC offset; a
\* due_at without one is shown only under the sentinel rule
C4_IsDueTodayOnAware ==
    due_out.called =>
        (due_out.value <=>
            /\ ShouldDisplay(due_out.chore, now)
            /\ \/ due_out.chore.due_at.aware
               \/ (due_out.chore.schedule_type = "one_time"
                      /\ due_out.chore.due_at.year = 9999))

-----------------------------------------------------------------------------
(* Claims about the reconciliation tick, checked under Spec                 *)

\* the fields of a chore that the due-date filter leaves as they are
Untouched(seq) ==
    [i \in DOMAIN seq |->
        <<seq[i].id, seq[i].schedule_type, seq[i].status, seq[i].assigned_to,
          seq[i].is_pool>>]

\* every chore of a snapshot, wherever it stands
ChoresIn(snapshot) ==
    Range(snapshot.outstanding_chores) \cup Range(snapshot.late_chores)
        \cup Range(snapshot.pool_chores)
        \cup UNION { Range(snapshot.my_chores[u]) : u \in DOMAIN snapshot.my_chores }

\* due after the end of today, and not a one-time chore with the sentinel year
DueAfterToday(chore, n) ==
    LET d == ParseDatetime(chore.due_at)
    IN  /\ ~Falsy(chore.due_at)
        /\ d.ok = "datetime"
        /\ ~(chore.schedule_type = "one_time" /\ d.year = 9999)
        /\ WallTicks(AsLocal(d, n.off)) > WallTicks(EndOfToday(n))

\* the second half of C5 alone: no chore of a published snapshot is due after
\* the end of today, the one-time sentinel chores apart
C5_NoFutureChoreInSnapshot ==
    pc = "published" => \A c \in ChoresIn(data) : ~DueAfterToday(c, now)

\* C5: in every published snapshot outstanding_chores is exactly the raw
\* outstanding chores that satisfy the due-date inclusion policy, in their
\* order, late_chores likewise the raw late chores that satisfy it, and no
\* chore due after the end of today other than a one-time sentinel chore is
\* anywhere in the snapshot.
C5_SnapshotListsMatchPolicy ==
    pc = "published" =>
        /\ Untouched(data.outstanding_chores)
              = Untouched(SelectSeq(tick.answered.outstanding, LAMBDA c : ShouldDisplay(c, now)))
        /\ Untouched(data.late_chores)
              = Untouched(SelectSeq(tick.answered.late, LAMBDA c : ShouldDisplay(c, now)))
        /\ \A c \in ChoresIn(data) : ~DueAfterToday(c, now)

\* C6 as stated: in every published snapshot, for every monitored username u,
\* my_chores[u] holds no two chores with the same id, whatever duplicates the
\* filtered outstanding list, the filtered late list or the two together hold.
C6_NoDuplicateIds ==
    pc = "published" =>
        \A u \in DOMAIN data.my_chores :
            \A i, j \in 1..Len(data.my_chores[u]) :
                i < j => data.my_chores[u][i].id # data.my_chores[u][j].id

\* how many chores of the list are assigned to u
CountAssigned(seq, u) ==
    Cardinality({ k \in 1..Len(seq) : AssignedUsername(seq[k]) = u })

\* C6 as amended: in every published snapshot, for every monitored username u,
\* my_chores[u] is the filtered outstanding chores assigned to u, all of them,
\* followed by late chores of u; a late chore never repeats an id already in the
\* list, so two entries share an id only if both come from the outstanding
\* list.
C6_LateChoresAddNoDuplicate ==
    pc = "published" =>
        \A u \in DOMAIN data.my_chores :
            LET my   == data.my_chores[u]
                nOut == CountAssigned(data.outstanding_chores, u)
            IN  /\ nOut <= Len(my)
                /\ Untouched(SubSeq(my, 1, nOut))
                      = Untouched(SelectSeq(data.outstanding_chores, LAMBDA c : AssignedUsername(c) = u))
                /\ \A i, j \in 1..Len(my) :
                      (i < j /\ my[i].id = my[j].id) => j <= nOut

\* a late chore was left out because its id stood in the list already
C6_Witness ==
    /\ pc = "published"
    /\ "alice" \in DOMAIN data.my_chores
    /\ CountAssigned(data.outstanding_chores, "alice") = 1
    /\ CountAssigned(data.late_chores, "alice") = 1
    /\ Len(data.my_chores["alice"]) = 1

\* the pool condition as the specification words it
InPool(chore) ==
    \/ chore.status \in {"POOL", "pool", "Pool"}
    \/ (chore.is_pool /\ chore.assigned_to.kind # "dict")

\* C7: pool_chores is exactly the subsequence of the filtered outstanding
\* chores, in their order, whose status is "POOL" in any letter case or whose
\* is_pool is true while they have no assignee; a chore of the late list only,
\* or one the due-date filter left out, is not in it.
C7_PoolIsSubsequenceOfOutstanding ==
    pc = "published" =>
        /\ data.pool_chores = SelectSeq(data.outstanding_chores, InPool)
        /\ \A c \in Range(data.pool_chores) :
              \E r \in Range(tick.answered.outstanding) :
                  /\ r.id = c.id /\ r.status = c.status
                  /\ r.assigned_to = c.assigned_to /\ r.is_pool = c.is_pool
                  /\ IsDueToday(r, now)

\* a lower-case pool chore is picked out of a longer outstanding list
C7_Witness ==
    /\ pc = "published"
    /\ Len(data.outstanding_chores) = 2
    /\ Len(data.pool_chores) = 1
    /\ data.pool_chores[1].status = "pool"
    /\ data.pool_chores[1] = data.outstanding_chores[2]

\* C8: if a core fetch of a tick raises an API error, the tick raises
\* UpdateFailed and publishes nothing: the snapshot consumers see stays the one
\* of the last successful tick, and only a tick that succeeds replaces it.
C8_CoreFailureKeepsSnapshot ==
    [][ /\ (pc = "core" /\ tick'.error = "ChoreboardAPIError")
               => (pc' = "failed" /\ data' = data)
        /\ pc = "failed"
               => (pc' = "idle" /\ data' = data /\ ~last_update_success')
        /\ data' # data => (pc = "assemble" /\ pc' = "published")
      ]_vars

\* the last core fetch has raised an API error while an older snapshot, of a
\* backend that held more chores, is on display
C8_Witness ==
    /\ pc = "failed"
    /\ tick.error = "ChoreboardAPIError"
    /\ tick.fetch_no = Len(CoreFetches)
    /\ data.published
    /\ Len(data.outstanding_chores) > Len(backend.outstanding)

SnapshotFields ==
    {"outstanding_chores", "late_chores", "pool_chores", "users", "points_label",
     "recent_completions", "chore_leaderboards", "leaderboard_weekly",
     "leaderboard_alltime", "my_chores", "arcade_sessions"}

LifecycleSteps ==
    { <<"idle", "idle">>, <<"idle", "fetching">>, <<"fetching", "fetching">>,
      <<"fetching", "reconciling">>, <<"reconciling", "published">>,
      <<"fetching", "failed">>, <<"failed", "idle">>, <<"published", "idle">> }

C10_OptionalFetchFailureIsolated ==
    /\ (\E f \in tick.failed : f[1] \in {"arcade", "pending"}) => pc # "failed"
    /\ pc = "published" =>
          /\ \A f \in tick.failed :
                f[1] = "arcade" => f[2] \notin DOMAIN data.arcade_sessions
          /\ \A k \in 1..Len(monitored_users) :
                LET u == FindUser(backend.users, monitored_users[k])
                IN  ( /\ <<"arcade", monitored_users[k]>> \notin tick.failed
                      /\ u.found /\ u.id # 0
                      /\ backend.arcade[u.id].has_active_session )
                    => monitored_users[k] \in DOMAIN data.arcade_sessions
          /\ [data EXCEPT !.arcade_sessions = <<>>]
                = [BuildData(tick) EXCEPT !.arcade_sessions = <<>>]

\* what the code does keep of C10: a fetch that fails with a ChoreboardAPIError
\* does not fail the tick, and a user whose status fetch failed so has at most
\* the session the pending approvals give
C10_ApiErrorIsolated ==
    /\ [][ (pc = "arcade" /\ tick'.failed # tick.failed /\ tick'.error = "none")
              => pc' \in {"arcade", "assemble"} ]_vars
    /\ [](pc = "published" =>
            \A f \in tick.failed :
               (f[1] = "arcade" /\ f[2] \in DOMAIN data.arcade_sessions)
                  => \E i \in 1..Len(backend.pending) :
                        /\ backend.pending[i].user_name = f[2]
                        /\ data.arcade_sessions[f[2]].id
                              = Or(backend.pending[i].session_id, backend.pending[i].id))

-----------------------------------------------------------------------------
(* Further claims about the due-date filter, checked under SpecDue          *)

C12_FilterLeavesRawUnchanged ==
    f_result.called => f_chores = f_input

\* what the filter does leave alone: the length and the order of the list it is
\* given, every field other than the two dates, and the chores it excludes
C12_FilterKeepsShapeOfRaw ==
    f_result.called =>
        /\ Len(f_chores) = Len(f_input)
        /\ \A i \in 1..Len(f_chores) :
              /\ [f_chores[i] EXCEPT !.due_at = DtNone, !.completed_at = DtNone]
                    = [f_input[i] EXCEPT !.due_at = DtNone, !.completed_at = DtNone]
              /\ f_chores[i].due_at.fmt \in {"iso"} => f_chores[i] = f_input[i]

\* the local-time, minute-precision string of a parseable value
LocalMinuteString(orig, got, n) ==
    /\ got.fmt = "minute"
    /\ WallTicks(got) <= WallTicks(AsLocal(ParseDatetime(orig), n.off))
    /\ WallTicks(AsLocal(ParseDatetime(orig), n.off)) < WallTicks(got) + SubMinute
    /\ got.tick % SubMinute = 0

\* C13: _normalize_datetime maps None to None, a parseable ISO-8601 string to
\* the local-time 'YYYY-MM-DD HH:MM' string, and a string it cannot parse to
\* that same string; so the completed_at of a chore that survives the filter, if
\* it cannot be parsed, keeps its value.
C13_NormalizeKeepsUnparseable ==
    (f_calls = 1 /\ Len(f_result.list) = 1) =>
        LET orig == f_input[1].completed_at
            got  == f_result.list[1].completed_at
        IN  /\ orig.fmt = "none" => got = DtNone
            /\ orig.fmt = "iso" => LocalMinuteString(orig, got, now)
            /\ orig.fmt \in {"nomatch", "invalid"} => got = orig
            /\ LocalMinuteString(f_input[1].due_at, f_result.list[1].due_at, now)

\* what the code does with a string it cannot parse: one that parse_datetime
\* answers None for becomes None, one it raises ValueError for is kept
C13_NormalizeAsCoded ==
    (f_calls = 1 /\ Len(f_result.list) = 1) =>
        LET orig == f_input[1].completed_at
            got  == f_result.list[1].completed_at
        IN  /\ orig.fmt = "none" => got = DtNone
            /\ orig.fmt = "iso" => LocalMinuteString(orig, got, now)
            /\ orig.fmt = "nomatch" => got = DtNone
            /\ orig.fmt = "invalid" => got = orig
            /\ orig.fmt = "missing" => got = orig
            /\ LocalMinuteString(f_input[1].due_at, f_result.list[1].due_at, now)

-----------------------------------------------------------------------------
(* Further claims about the reconciliation tick, checked under Spec         *)

\* the first user of the backend with this username, if any
FirstUserNamed(name) ==
    { i \in 1..Len(backend.users) :
        /\ backend.users[i].username = name
        /\ \A j \in 1..(i - 1) : backend.users[j].username # name }

\* the live status this tick obtained for the monitored user says a session is
\* running
HasLiveSession(name) ==
    \E i \in FirstUserNamed(name) :
        /\ backend.users[i].id # 0
        /\ <<"arcade", name>> \notin tick.failed
        /\ backend.arcade[backend.users[i].id].has_active_session

\* the first pending approval of this user
FirstPendingOf(name) ==
    { i \in 1..Len(backend.pending) :
        /\ backend.pending[i].user_name = name
        /\ \A j \in 1..(i - 1) : backend.pending[j].user_name # name }

\* C14: arcade_sessions holds at most one record per monitored user: for a user
\* whose live status has has_active_session, the record built from that status
\* (status "active" when the status names none), which no pending approval
\* replaces; a pending approval gives a record (status "judging" when it names
\* none) only to a monitored user without a live session in this tick.
C14_LiveSessionWinsOverPending ==
    pc = "published" =>
        /\ DOMAIN data.arcade_sessions \subseteq Range(monitored_users)
        /\ \A name \in Range(monitored_users) :
              IF HasLiveSession(name)
              THEN /\ name \in DOMAIN data.arcade_sessions
                   /\ \E i \in FirstUserNamed(name) :
                         LET st == backend.arcade[backend.users[i].id]
                             r  == data.arcade_sessions[name]
                         IN  /\ r.id = st.session_id
                             /\ r.chore_id = st.instance_id
                             /\ r.user_id = backend.users[i].id
                             /\ r.user_name = name
                             /\ r.status = IF st.status = "missing" THEN "active"
                                           ELSE st.status
              ELSE name \in DOMAIN data.arcade_sessions =>
                      /\ <<"pending", "">> \notin tick.failed
                      /\ \E i \in FirstPendingOf(name) :
                            LET p == backend.pending[i]
                                r == data.arcade_sessions[name]
                            IN  /\ r.id = IF p.session_id # 0 THEN p.session_id ELSE p.id
                                /\ r.user_name = name
                                /\ r.status = IF p.status = "missing" THEN "judging"
                                              ELSE p.status

\* a user with a live session is also named by a pending approval, and keeps
\* the record of the live session
C14_Witness ==
    /\ pc = "published"
    /\ tick.failed = {}
    /\ "alice" \in Range(monitored_users)
    /\ HasLiveSession("alice")
    /\ FirstPendingOf("alice") # {}
    /\ data.arcade_sessions["alice"].status = "active"

\* a user without a live session has the record of a pending approval, with
\* the default status
C14_PendingWitness ==
    /\ pc = "published"
    /\ ~HasLiveSession("bob")
    /\ "bob" \in DOMAIN data.arcade_sessions
    /\ data.arcade_sessions["bob"].status = "judging"
    /\ data.arcade_sessions["bob"].id = 8

-----------------------------------------------------------------------------
(* Further claims about the API client, checked under SpecAuth              *)

\* C15: _request answers 404 with a ChoreboardAPIError that names the endpoint,
\* a status of 500 or more with a ChoreboardAPIError that carries the status, a
\* connection failure with ChoreboardConnectionError, and a successful response
\* with its parsed JSON body.
C15_RequestOutcomes ==
    ret.op = "request" =>
        /\ (ret.kind = "http" /\ ret.status = 404)
              => /\ ret.raised = "ChoreboardAPIError"
                 /\ ret.message.path = ret.endpoint
        /\ (ret.kind = "http" /\ ret.status >= 500)
              => /\ ret.raised = "ChoreboardAPIError"
                 /\ ret.message.code = ret.status
        /\ ret.kind = "connection_error" => ret.raised = "ChoreboardConnectionError"
        /\ ( /\ ret.kind = "http" /\ ret.status >= 200 /\ ret.status < 300
             /\ ret.sent_body \in {"json_object", "json_array"} )
              => (ret.raised = "none" /\ ret.body = ret.sent_body)
        /\ ret.raised # "none" => ret.body = "none"

\* a 503 answered with a ChoreboardAPIError that carries 503
C15_Witness ==
    /\ ret.op = "request"
    /\ ret.status = 503
    /\ ret.raised = "ChoreboardAPIError"
    /\ ret.message.code = 503

\* C16: for every response status that is neither 2xx nor 401, 404 or 500 and
\* above (1xx, 3xx, and 4xx such as 400 or 403), _request raises a plain
\* ChoreboardAPIError and returns no body.
C16_OtherStatusRaises ==
    ( /\ ret.op = "request" /\ ret.kind = "http"
      /\ ~(ret.status >= 200 /\ ret.status < 300)
      /\ ret.status \notin {401, 404} /\ ret.status < 500 )
        => (ret.raised = "ChoreboardAPIError" /\ ret.body = "none")

\* what the code does for these statuses: 400 and above raise, below 400 the
\* response is read as a success is
C16_ClientErrorStatusRaises ==
    ( /\ ret.op = "request" /\ ret.kind = "http"
      /\ ret.status >= 400 /\ ret.status \notin {401, 404} /\ ret.status < 500 )
        => (ret.raised = "ChoreboardAPIError" /\ ret.body = "none")

\* C17: however _request fails, the caller gets a ChoreboardAPIError,
\* ChoreboardAuthError or ChoreboardConnectionError; no exception of another
\* type leaves _request.
C17_OnlyApiErrorsEscape ==
    ret.op = "request" =>
        ret.raised \in {"none", "ChoreboardAPIError", "ChoreboardAuthError",
                        "ChoreboardConnectionError"}

C19_ApiErrorRaisedNoRefresh ==
    svc.outcome = "ChoreboardAPIError" =>
        /\ "refresh requested" \notin Range(svc.trace)
        /\ svc.pc \in {"return", "idle"} => svc.raised = "HomeAssistantError"

\* a handler whose write call raised ChoreboardAPIError has raised
C19_Witness ==
    /\ svc.pc = "return"
    /\ svc.outcome = "ChoreboardAPIError"
    /\ svc.raised = "HomeAssistantError"
    /\ svc.trace = <<"write called", "write raised">>

\* C20: a handler whose write call returned requests one refresh, and every
\* refresh request comes right after the write call has returned: none comes
\* before the write or after a write that raised.
C20_OneRefreshAfterSuccessfulWrite ==
    /\ (svc.outcome = "ok" /\ svc.pc \in {"return", "idle"}) =>
          svc.trace = <<"write called", "write returned", "refresh requested">>
    /\ \A i \in DOMAIN svc.trace :
          svc.trace[i] = "refresh requested" =>
              i > 1 /\ svc.trace[i - 1] = "write returned"
    /\ svc.outcome # "ok" => "refresh requested" \notin Range(svc.trace)
    /\ svc.refreshes <= svc.calls

\* a handler whose write call returned has requested its refresh and returns
C20_Witness ==
    /\ svc.pc = "return"
    /\ svc.outcome = "ok"
    /\ svc.raised = "none"
    /\ svc.refreshes = 1
    /\ svc.trace[Len(svc.trace)] = "refresh requested"

-----------------------------------------------------------------------------
(* Claims about the token, checked under SpecAuth                           *)

\* C21: a generated token is username:timestamp:signature, the timestamp being
\* the whole seconds of the clock as read at the generation, the signature the
\* HMAC-SHA256 hex digest, under the secret, of username:timestamp with that
\* same timestamp; the token is determined by username, secret and timestamp.
C21_TokenForm ==
    ret.generated =>
        /\ Len(ret.token) = 3
        /\ ret.token[1] = username
        /\ ret.token[2] \in Nat
        /\ ret.token[2] * TicksPerSec <= clock
        /\ clock < (ret.token[2] + 1) * TicksPerSec
        /\ ret.token[3] = HmacSha256Hex(secret_key, <<ret.token[1], ret.token[2]>>)

\* a token generated for a request between two whole seconds, by the second
\* user under the second secret
C21_Witness ==
    /\ ret.op = "request"
    /\ ret.generated
    /\ clock % TicksPerSec # 0
    /\ username = "bob"
    /\ secret_key = "k2"
    /\ ret.token[2] > 0

-----------------------------------------------------------------------------
(* Claims about the sensors, checked under SpecSensors                      *)

\* C22: of all sensors only the Users sensor has an attribute named "users";
\* no other sensor has a "users" or an "all_users" attribute, whatever the
\* snapshot.
C22_OnlyUsersSensorHasUsers ==
    (sensed.read /\ sensed.sensor.kind # "users") =>
        ("users" \notin sensed.attributes /\ "all_users" \notin sensed.attributes)

\* what the code does keep: the sensors other than the Users sensor and the
\* two leaderboard sensors have no such attribute, and the Users sensor has one
C22_UsersAndLeaderboardsHaveUsers ==
    sensed.read =>
        /\ "all_users" \notin sensed.attributes
        /\ "users" \in sensed.attributes
              <=> sensed.sensor.kind \in {"users", "leaderboard_weekly", "leaderboard_alltime"}

\* C29: the state of the Pending Arcade Sessions sensor is the number of
\* sessions awaiting approval that the pending-approvals fetch of the latest
\* successful tick returned: at least 1 whenever that fetch returned a session.
C29_PendingSensorCountsPending ==
    [][ ( /\ sensed' # sensed
          /\ sensed'.sensor.kind = "pending_arcade"
          /\ pc = "published"
          /\ <<"pending", "">> \notin tick.failed )
        => sensed'.native_value = Len(backend.pending) ]_vars

\* what the sensor does show: 0, the snapshot having no pending_arcade_sessions
C29_PendingSensorShowsZero ==
    (sensed.read /\ sensed.sensor.kind = "pending_arcade") => sensed.native_value = 0

-----------------------------------------------------------------------------
(* Claims about the per-user views                                          *)

\* C27: a chore without an assignee is in my_chores of no monitored user, and
\* my_chores[u] holds only chores whose assignee's username is u, whatever the
\* monitored usernames are.
C27_MyChoresOnlyOfAssignee ==
    pc = "published" =>
        \A u \in DOMAIN data.my_chores :
            \A c \in Range(data.my_chores[u]) :
                c.assigned_to.kind = "dict" /\ c.assigned_to.username = u

\* what the code does keep: my_chores[u] holds the chores whose
\* assigned_username, the string the loop computes, is u
C27_MyChoresOfAssignedUsername ==
    pc = "published" =>
        \A u \in DOMAIN data.my_chores :
            \A c \in Range(data.my_chores[u]) :
                \/ (c.assigned_to.kind = "dict" /\ c.assigned_to.username = u)
                \/ (c.assigned_to.kind = "null" /\ u = "None")
                \/ (c.assigned_to.kind = "missing" /\ u = "")

-----------------------------------------------------------------------------
(* Claims about the tasks that call the client, checked under SpecTasks     *)

\* C24: the requests to the backend come from one task, so no two of them are
\* in flight at once and the token cache is not changed by one request while
\* another that read it is in flight: a 401 answer never clears a token that
\* was generated after the answered request was sent.
C24_OneRequestInFlight ==
    /\ [](Cardinality({ t \in Tasks : inflight[t].busy }) <= 1)
    /\ [][ \A t \in Tasks :
              ( /\ inflight[t].busy /\ ~inflight'[t].busy
                /\ cached_token # None /\ cached_token' = None )
              => cached_token = inflight[t].token ]_vars

\* what the code does keep: a task has one request in flight at most, and the
\* cache is cleared by a 401 answer only
C24_CacheClearedBy401Only ==
    [][ (cached_token # None /\ cached_token' = None)
            => (ret'.op = "request" /\ ret'.status = 401) ]_vars

\* C25: with a clock that does not go backwards, the token a request carries
\* has an embedded timestamp less than 23 hours and one second older than the
\* time the request is sent, after any requests, cache hits, regenerations and
\* 401 answers; a token of 24 hours or more is never sent.
C25_SentTokenIsYoung ==
    \A t \in Tasks :
        inflight[t].busy =>
            /\ inflight[t].sent_at - inflight[t].token[2] * TicksPerSec
                  < (23 * 3600 + 1) * TicksPerSec
            /\ inflight[t].sent_at - inflight[t].token[2] * TicksPerSec
                  < 24 * 3600 * TicksPerSec
            /\ inflight[t].token[2] * TicksPerSec <= inflight[t].sent_at

\* a request sent with a cached token in the last instant of its freshness
\* window, the embedded timestamp being a full 23 hours old by then
C25_Witness ==
    \E t \in Tasks :
        /\ inflight[t].busy
        /\ inflight[t].serial > 1
        /\ inflight[t].sent_at - token_timestamp = 23 * 3600 * TicksPerSec - 1
        /\ inflight[t].sent_at - inflight[t].token[2] * TicksPerSec = 23 * 3600 * TicksPerSec
        /\ inflight[t].token = cached_token

-----------------------------------------------------------------------------
(* A further claim about the due-date filter, checked under SpecDue         *)

\* C26: _filter_chores_by_due_date applied, at the same time, to a list it has
\* filtered and normalized already keeps every chore: a chore that survived
\* the first application, its due_at rewritten to 'YYYY-MM-DD HH:MM',
\* survives the second.
C26_FilteredListSurvivesFilter ==
    [][ ( /\ f_calls = 1 /\ f_calls' = 2
          /\ f_chores = f_result.list )
        => Len(f_result'.list) = Len(f_result.list) ]_vars

\* what the code does keep: of a filtered list only the one-time chores with
\* the sentinel year survive a second application
C26_OnlySentinelSurvivesSecondFilter ==
    [][ ( /\ f_calls = 1 /\ f_calls' = 2
          /\ f_chores = f_result.list )
        => \A c \in Range(f_result.list) :
              (\E d \in Range(f_result'.list) : d.id = c.id)
                 <=> (c.schedule_type = "one_time" /\ c.due_at.year = 9999) ]_vars

-----------------------------------------------------------------------------
(* A further claim about the reconciliation tick, checked under Spec        *)

\* C28: in every published snapshot every key of arcade_sessions is a
\* monitored username that is also in the fetched user list, and the record
\* under key u has user_name u and, as user_id, the id of the first user of
\* the list whose username is u.
C28_SessionKeysAreMonitoredUsers ==
    pc = "published" =>
        \A u \in DOMAIN data.arcade_sessions :
            /\ u \in Range(monitored_users)
            /\ \E i \in 1..Len(data.users) :
                  /\ data.users[i].username = u
                  /\ \A j \in 1..(i - 1) : data.users[j].username # u
                  /\ data.arcade_sessions[u].user_id = data.users[i].id
            /\ data.arcade_sessions[u].user_name = u

\* a pending approval has given a record to a user who stands twice in the
\* user list, and a second user has the record of a live session
C28_Witness ==
    /\ pc = "published"
    /\ Len(data.users) = 3
    /\ data.users[2].username = "alice"
    /\ DOMAIN data.arcade_sessions = {"alice", "bob"}
    /\ data.arcade_sessions["alice"].status = "judging"
    /\ data.arcade_sessions["alice"].user_id = 1
    /\ data.arcade_sessions["bob"].status = "active"

-----------------------------------------------------------------------------
(* Claims about the credential steps, checked under SpecFlow                *)

\* C30: when the user step or the credentials step validates credentials, a
\* connection failure shows the form again with error cannot_connect, and an
\* answer of HTTP 401 shows it again with error invalid_auth.
C30_FailuresHaveTheirOwnErrors ==
    /\ (flow.response.kind = "connection_error")
          => (flow.phase = "form" /\ flow.errors = "cannot_connect")
    /\ (flow.response.kind = "http" /\ flow.response.status = 401)
          => (flow.phase = "form" /\ flow.errors = "invalid_auth")

\* what holds: a connection failure and a 401 both show the form again with
\* invalid_auth, and cannot_connect is never shown
C30_ApiFailuresShowInvalidAuth ==
    /\ flow.errors # "cannot_connect"
    /\ (\/ flow.response.kind = "connection_error"
        \/ (flow.response.kind = "http" /\ flow.response.status = 401))
          => (flow.phase = "form" /\ flow.errors = "invalid_auth")

====
